---- MODULE Spec2Model ----
(***************************************************************************)
(* License lifecycle and request gating of the AI TL;DR backend.           *)
(*                                                                         *)
(* The repository holds three near-duplicate revisions of one server file: *)
(*   "server"  src/tldr-backend/server.js                                  *)
(*   "guarded" src/unnamed/part_000 lines 1-183  (every handler in a       *)
(*             try/catch, no email)                                        *)
(*   "mailer"  src/unnamed/part_000 lines 185-376 (email delivery added)   *)
(* The revision is fixed at start-up (variable variant).  Each HTTP        *)
(* request is one handler invocation that suspends at its awaits; the      *)
(* steps between two awaits are one atomic action.  The store, the relay   *)
(* and the mailer are external: every reply they can give is enumerated.   *)
(***************************************************************************)
EXTENDS Integers, Sequences, FiniteSets, TLC

\* ---------------------------------------------------------------- bounds
MaxReqs == 2
MaxKeys == 2
MaxSessions == 2

\* text.slice(0, 6000)
MaxChars == 6000

Reqs == 1..MaxReqs
Keys == 1..MaxKeys
Sessions == 1..MaxSessions
NoKey == 0
NoText == 0
NoEmail == 0
Emails == {NoEmail, 1}
TextLens == {NoText, 10000}
Variants == {"server", "guarded", "mailer"}
StoreReplies == {"ok", "error", "throw"}
EventTypes == {"checkout.session.completed", "payment_intent.created"}

VARIABLES variant, licenses, usage, relayCalls, req

vars == <<variant, licenses, usage, relayCalls, req>>

\* ---------------------------------------------------------------- values
NoLicense == [key |-> NoKey, email |-> NoEmail, stripe_session_id |-> 0, active |-> FALSE]

NoResp == [status |-> 0, body |-> ""]

Resp(s, b) == [status |-> s, body |-> b]

IdleReq ==
  [kind |-> "none", pc |-> "idle", licenseKey |-> NoKey, text |-> NoText,
   sig |-> "none", session |-> 0, email |-> NoEmail, evtype |-> "",
   license |-> NoLicense, relay |-> "none", content |-> <<>>, raw |-> <<>>,
   delivery |-> "none", resp |-> NoResp]

Min(a, b) == IF a < b THEN a ELSE b

\* String.prototype.slice(from, to) on a text of len characters, for
\* 0 <= from <= to: the index of its first character and how many it holds.
Slice(len, from, to) == [first |-> Min(from, len), chars |-> Min(to, len) - Min(from, len)]

\* The text forwarded whole.
Untrimmed(text) == Slice(text, 0, text)

\* const trimmed = text.slice(0, 6000)
Trimmed(text) == Slice(text, 0, MaxChars)

\* ------------------------------------------------- relay content handling
\* A relay content is a sequence of tokens: "FENCE" is ```, "json" the
\* language tag, "ws" a run of whitespace, "J1"/"J2" the text of a JSON
\* object, "txt" text that is not JSON.
JsonTexts == {"J1", "J2"}

RECURSIVE DropLeadingWs(_)
DropLeadingWs(s) ==
  IF s # <<>> /\ Head(s) = "ws" THEN DropLeadingWs(Tail(s)) ELSE s

RECURSIVE DropTrailingWs(_)
DropTrailingWs(s) ==
  IF s # <<>> /\ s[Len(s)] = "ws" THEN DropTrailingWs(SubSeq(s, 1, Len(s) - 1)) ELSE s

Trim(s) == DropTrailingWs(DropLeadingWs(s))

\* A replace that matches nothing.
StripNothing(s) == s

\* .replace(/^```json\s*/i, '')
StripFenceJson(s) ==
  IF Len(s) >= 2 /\ s[1] = "FENCE" /\ s[2] = "json"
  THEN DropLeadingWs(SubSeq(s, 3, Len(s))) ELSE s

\* .replace(/^```\s*/i, '')
StripFenceOpen(s) ==
  IF s # <<>> /\ s[1] = "FENCE" THEN DropLeadingWs(Tail(s)) ELSE s

\* .replace(/```\s*$/i, '')
StripFenceClose(s) ==
  LET t == DropTrailingWs(s)
  IN IF t # <<>> /\ t[Len(t)] = "FENCE" THEN SubSeq(t, 1, Len(t) - 1) ELSE s

StripFences(content) ==
  Trim(StripFenceClose(StripFenceOpen(StripFenceJson(Trim(content)))))

\* JSON.parse(raw) returns a value exactly when raw is one JSON text.
Parses(raw) == Len(raw) = 1 /\ raw[1] \in JsonTexts

Contents ==
  { <<"J1">>,
    <<"FENCE", "json", "ws", "J1", "ws", "FENCE">>,
    <<"ws", "FENCE", "ws", "J2", "FENCE", "ws">>,
    <<"txt">>,
    <<"FENCE", "json", "ws", "txt", "J1">> }

\* ------------------------------------------------------------- the store
\* The lookup without its .eq('active', true) filter.
SelectAnyStatus(lic, key) == {l \in lic : l.key = key}

\* .from('licenses').select('*').eq('key', key).eq('active', true)
SelectActive(lic, key) == {l \in lic : l.key = key /\ l.active}

\* .single(): exactly one row, else an error
Single(rows) == IF Cardinality(rows) = 1 THEN CHOOSE l \in rows : TRUE ELSE NoLicense

\* A lookup that remembers every key ever issued, whatever its flag now.
verifyLicenseStale(lic, key, reply) ==
  IF reply = "ok" THEN Single(SelectAnyStatus(lic, key)) ELSE NoLicense

\* verifyLicense: the row, or null on error or no data
verifyLicense(lic, key, reply) ==
  IF reply = "ok" THEN Single(SelectActive(lic, key)) ELSE NoLicense

\* A keys column without the UNIQUE constraint.
UniqueViolationNever(lic, row) == FALSE

\* licenses.key TEXT UNIQUE NOT NULL
UniqueViolation(lic, row) == \E l \in lic : l.key = row.key

\* ------------------------------------------------------------- responses
\* The test without its !text half.
MissingInputKeyOnly(licenseKey, text) == licenseKey = NoKey

\* if (!licenseKey || !text)
MissingInput(licenseKey, text) == licenseKey = NoKey \/ text = NoText

InternalError == Resp(500, "Internal server error")

InvalidLicense == Resp(403, "INVALID_LICENSE")

VerifyResponse(license) == Resp(200, IF license # NoLicense THEN "valid:true" ELSE "valid:false")

\* The handler's locals die with the invocation (the generated key, the
\* session and the email are locals of the webhook handler); the request
\* line and what it was answered stay on record.
Finished(r, pc) ==
  [req[r] EXCEPT !.pc = pc, !.text = NoText, !.email = NoEmail, !.session = 0,
                 !.licenseKey = IF req[r].kind = "webhook" THEN NoKey ELSE @,
                 !.license = NoLicense, !.content = <<>>, !.raw = <<>>]

Respond(r, resp) == [Finished(r, "done") EXCEPT !.resp = resp]

\* A rejected promise outside any try/catch: the handler never answers.
Hang(r) == Finished(r, "hung")

\* ---------------------------------------------------------------- Init
Init ==
  /\ variant \in Variants
  /\ licenses = {}
  /\ usage = <<>>
  /\ relayCalls = {}
  /\ req = [r \in Reqs |-> IdleReq]

\* Requests take the slots in arrival order.
CanStart(r) == req[r].pc = "idle" /\ \A q \in Reqs : q < r => req[q].pc # "idle"


Set(r, rec) == req' = [req EXCEPT ![r] = rec]

\* ------------------------------------------------------- POST /summarise
\* The handler without its license gate.
LicenseRejectedNever(license) == FALSE

\* if (!license) return res.status(403)
LicenseRejected(license) == license = NoLicense

\* const { licenseKey, text, title } = req.body; the missing-input check;
\* the license lookup is issued.
SummariseStart(r) ==
  /\ CanStart(r)
  /\ \E k \in Keys \cup {NoKey}, t \in TextLens :
       LET base == [IdleReq EXCEPT !.kind = "summarise", !.licenseKey = k, !.text = t]
       IN Set(r, IF MissingInput(k, t)
                 THEN [base EXCEPT !.pc = "done",
                                   !.resp = Resp(400, "Missing licenseKey or text")]
                 ELSE [base EXCEPT !.pc = "s_verify"])
  /\ UNCHANGED <<variant, licenses, usage, relayCalls>>

\* await verifyLicense(licenseKey) returns; a valid license sends the
\* trimmed text to the relay.
SummariseVerified(r) ==
  /\ req[r].pc = "s_verify"
  /\ \E reply \in StoreReplies :
       IF reply = "throw"
       THEN /\ Set(r, IF variant = "guarded" THEN Respond(r, InternalError) ELSE Hang(r))
            /\ UNCHANGED relayCalls
       ELSE LET license == verifyLicense(licenses, req[r].licenseKey, reply)
            IN IF LicenseRejected(license)
               THEN /\ Set(r, Respond(r, InvalidLicense))
                    /\ UNCHANGED relayCalls
               ELSE /\ Set(r, [req[r] EXCEPT !.pc = "s_fetch", !.license = license,
                                             !.relay = "pending"])
                    /\ relayCalls' = relayCalls \cup
                         {[req |-> r, first |-> Trimmed(req[r].text).first,
                           chars |-> Trimmed(req[r].text).chars]}
  /\ UNCHANGED <<variant, licenses, usage>>

\* await fetch(...) settles: unreachable, a non-success response, or a
\* success whose content is stripped of its fences; the usage insert is issued.
SummariseRelayedWith(r, contents) ==
  /\ req[r].pc = "s_fetch"
  /\ \/ Set(r, [Respond(r, InternalError) EXCEPT !.relay = "unreachable"])
     \/ \E msg \in {"", "Rate limit exceeded"} :
          Set(r, [Respond(r, Resp(502, IF msg # "" THEN msg ELSE "AI API error"))
                    EXCEPT !.relay = "error"])
     \/ Set(r, [Respond(r, InternalError) EXCEPT !.relay = "error"])
     \/ Set(r, [Respond(r, InternalError) EXCEPT !.relay = "ok"])
     \/ \E content \in contents :
          Set(r, [req[r] EXCEPT !.pc = "s_usage", !.relay = "ok", !.content = content,
                                !.raw = StripFences(content)])
  /\ UNCHANGED <<variant, licenses, usage, relayCalls>>

SummariseRelayed(r) == SummariseRelayedWith(r, Contents)

\* await supabase.from('usage').insert(...) settles, then
\* return res.json({ result: JSON.parse(raw) }).
SummariseLogged(r) ==
  /\ req[r].pc = "s_usage"
  /\ \E reply \in StoreReplies :
       IF reply = "throw"
       THEN /\ Set(r, Respond(r, InternalError))
            /\ UNCHANGED usage
       ELSE /\ usage' = IF reply = "ok" THEN Append(usage, req[r].licenseKey) ELSE usage
            /\ Set(r, IF Parses(req[r].raw)
                      THEN Respond(r, Resp(200, req[r].raw[1]))
                      ELSE Respond(r, InternalError))
  /\ UNCHANGED <<variant, licenses, relayCalls>>

\* ------------------------------------------------------------ GET /verify
VerifyStart(r) ==
  /\ CanStart(r)
  /\ \E k \in Keys \cup {NoKey} :
       LET base == [IdleReq EXCEPT !.kind = "verify", !.licenseKey = k]
       IN Set(r, IF k = NoKey
                 THEN [base EXCEPT !.pc = "done", !.resp = Resp(400, "valid:false")]
                 ELSE [base EXCEPT !.pc = "v_verify"])
  /\ UNCHANGED <<variant, licenses, usage, relayCalls>>

VerifyLookedUp(r) ==
  /\ req[r].pc = "v_verify"
  /\ \E reply \in StoreReplies :
       Set(r, IF reply = "throw"
              THEN IF variant = "guarded" THEN Respond(r, Resp(500, "valid:false"))
                                          ELSE Hang(r)
              ELSE Respond(r, VerifyResponse(verifyLicense(licenses, req[r].licenseKey, reply))))
  /\ UNCHANGED <<variant, licenses, usage, relayCalls>>

\* --------------------------------------------------------- POST /webhook
\* The handler taking the event without verifying its signature.
constructEventNeverThrows(sig) == FALSE

\* stripe.webhooks.constructEvent(req.body, sig, secret) throws on a
\* signature that does not verify.
constructEventThrows(sig) == sig # "valid"

\* The handler without its event-type test.
TriggersIssuanceAlways(type) == TRUE

\* if (event.type === 'checkout.session.completed')
TriggersIssuance(type) == type = "checkout.session.completed"

\* constructEvent, the event-type test, generateLicenseKey; the insert of
\* the new license is issued.
WebhookStart(r) ==
  /\ CanStart(r)
  /\ \E sig \in {"valid", "invalid"}, type \in EventTypes :
       LET base == [IdleReq EXCEPT !.kind = "webhook", !.sig = sig]
       IN IF constructEventThrows(sig)
          THEN Set(r, [base EXCEPT !.pc = "done", !.resp = Resp(400, "Webhook Error")])
          ELSE IF TriggersIssuance(type)
               THEN \E s \in Sessions, e \in Emails, k \in Keys :
                      Set(r, [base EXCEPT !.evtype = type, !.pc = "w_insert",
                                          !.session = s, !.licenseKey = k, !.email = e])
               ELSE Set(r, [base EXCEPT !.evtype = type, !.pc = "done",
                                        !.resp = Resp(200, "received")])
  /\ UNCHANGED <<variant, licenses, usage, relayCalls>>

\* An insert that stores the license switched off.
NewLicenseInactive(r) ==
  [key |-> req[r].licenseKey, email |-> req[r].email,
   stripe_session_id |-> req[r].session, active |-> FALSE]

NewLicense(r) ==
  [key |-> req[r].licenseKey, email |-> req[r].email,
   stripe_session_id |-> req[r].session, active |-> TRUE]

\* await supabase.from('licenses').insert(...) settles.
WebhookInserted(r) ==
  /\ req[r].pc = "w_insert"
  /\ \E reply \in StoreReplies :
       IF reply = "throw"
       THEN /\ Set(r, IF variant = "guarded" THEN Respond(r, InternalError) ELSE Hang(r))
            /\ UNCHANGED licenses
       ELSE IF reply = "error" \/ UniqueViolation(licenses, NewLicense(r))
            THEN /\ Set(r, Respond(r, Resp(500, "Failed to create license")))
                 /\ UNCHANGED licenses
            ELSE /\ licenses' = licenses \cup {NewLicense(r)}
                 /\ Set(r, IF variant = "mailer"
                           THEN [req[r] EXCEPT !.pc = "w_email"]
                           ELSE Respond(r, Resp(200, "received")))
  /\ UNCHANGED <<variant, usage, relayCalls>>

\* The send without its try/catch: a failed send rejects the handler.
AfterEmailUncaught(r, sent) ==
  IF sent THEN [Respond(r, Resp(200, "received")) EXCEPT !.delivery = "sent"]
          ELSE [Hang(r) EXCEPT !.delivery = "failed"]

\* try { await resend.emails.send(...) } catch (emailErr) { console.error }
AfterEmail(r, sent) ==
  [Respond(r, Resp(200, "received")) EXCEPT !.delivery = IF sent THEN "sent" ELSE "failed"]

WebhookEmailed(r) ==
  /\ req[r].pc = "w_email"
  /\ \E sent \in BOOLEAN : Set(r, AfterEmail(r, sent))
  /\ UNCHANGED <<variant, licenses, usage, relayCalls>>

\* ------------------------------------------------ external revocation
\* An operator flips active to false in the licenses table.
Revoke(k) ==
  /\ \E l \in licenses :
       /\ l.key = k
       /\ l.active
       /\ licenses' = (licenses \ {l}) \cup {[l EXCEPT !.active = FALSE]}
  /\ UNCHANGED <<variant, usage, relayCalls, req>>

Next ==
  \/ \E r \in Reqs : SummariseStart(r)
  \/ \E r \in Reqs : SummariseVerified(r)
  \/ \E r \in Reqs : SummariseRelayed(r)
  \/ \E r \in Reqs : SummariseLogged(r)
  \/ \E r \in Reqs : VerifyStart(r)
  \/ \E r \in Reqs : VerifyLookedUp(r)
  \/ \E r \in Reqs : WebhookStart(r)
  \/ \E r \in Reqs : WebhookInserted(r)
  \/ \E r \in Reqs : WebhookEmailed(r)
  \/ \E k \in Keys : Revoke(k)

Spec == Init /\ [][Next]_vars


\* ------------------------------------------------- concurrent redelivery
\* Two webhook invocations for one checkout session, both past
\* generateLicenseKey and suspended at the insert before either has inserted.
InitRace ==
  /\ variant \in Variants
  /\ licenses = {}
  /\ usage = <<>>
  /\ relayCalls = {}
  /\ \E s \in Sessions, k1 \in Keys, k2 \in Keys, e \in Emails :
       req = [r \in Reqs |->
                IF r <= 2
                THEN [IdleReq EXCEPT !.kind = "webhook", !.sig = "valid",
                                     !.evtype = "checkout.session.completed",
                                     !.pc = "w_insert", !.session = s,
                                     !.licenseKey = IF r = 1 THEN k1 ELSE k2,
                                     !.email = e]
                ELSE IdleReq]

NextRace ==
  \/ \E r \in Reqs : WebhookInserted(r)
  \/ \E r \in Reqs : WebhookEmailed(r)
  \/ \E k \in Keys : Revoke(k)

SpecRace == InitRace /\ [][NextRace]_vars

\* ------------------------------------------------------------ the claims
Responds(r) == req[r].pc # "done" /\ req'[r].pc = "done"

LicensesFor(s) == {l \in licenses : l.stripe_session_id = s}

\* C1: after any sequence of deliveries of checkout.session.completed
\* events the licenses table holds at most one record per transaction
\* reference (stripe_session_id).
IdempotentIssuance == \A s \in Sessions : Cardinality(LicensesFor(s)) <= 1

\* C2: when two webhook invocations for the same transaction reference are
\* both suspended at the insert before either has inserted, the store
\* rejects the later insert: at most one of them gets its license stored,
\* and no two license records carry the same transaction reference.
RaceKeepsOneLicense ==
  /\ \A l1 \in licenses, l2 \in licenses :
       l1.stripe_session_id = l2.stripe_session_id => l1 = l2
  /\ \A r1 \in Reqs, r2 \in Reqs :
       (r1 # r2 /\ req[r1].kind = "webhook" /\ req[r2].kind = "webhook")
         => ~ /\ (req[r1].pc = "w_email" \/ req[r1].resp = Resp(200, "received"))
              /\ (req[r2].pc = "w_email" \/ req[r2].resp = Resp(200, "received"))


\* C3: the relay is called only in the step in which verifyLicense returned
\* an active license row of the store for the presented key, in that same
\* request; a request whose verification returns no license ends with
\* 403 INVALID_LICENSE, has called no relay and written no usage record
\* (a lookup that throws ends the request with no relay call either), and
\* an answered request does nothing more.
RelayGating ==
  [][\A r \in Reqs :
       /\ ((req[r].relay = "none" /\ req'[r].relay # "none")
             \/ (\E c \in relayCalls' \ relayCalls : c.req = r))
            => /\ req[r].pc = "s_verify"
               /\ req'[r].license \in licenses
               /\ req'[r].license.key = req[r].licenseKey
               /\ req'[r].license.active
       /\ (req[r].pc = "s_verify" /\ req'[r] # req[r] /\ req'[r].pc # "s_fetch")
            => /\ relayCalls' = relayCalls
               /\ usage' = usage
               /\ req'[r].relay = "none"
               /\ \/ req'[r].pc = "done" /\ req'[r].resp = Resp(403, "INVALID_LICENSE")
                  \/ variant = "guarded" /\ req'[r].pc = "done"
                       /\ req'[r].resp = Resp(500, "Internal server error")
                  \/ variant # "guarded" /\ req'[r].pc = "hung"
       /\ req[r].pc \in {"done", "hung"} => req'[r] = req[r]
       /\ req'[r].resp = Resp(403, "INVALID_LICENSE") => req'[r].relay = "none"
    ]_vars

\* A summarise request for a key whose license is in the store, revoked, was
\* answered 403 and no relay call was made.
RelayGatingWitness ==
  \E r \in Reqs :
    /\ req[r].kind = "summarise"
    /\ req[r].resp = Resp(403, "INVALID_LICENSE")
    /\ \E l \in licenses : l.key = req[r].licenseKey /\ ~l.active
    /\ relayCalls = {}

\* C4: a summarise request whose licenseKey or text is absent is answered
\* 400 'Missing licenseKey or text' in its first step, before any store
\* lookup, relay call or usage write; licenses and usage are unchanged.
MissingInputRejected ==
  [][\A r \in Reqs :
       (req[r].pc = "idle" /\ req'[r].kind = "summarise")
         => IF req'[r].licenseKey = NoKey \/ req'[r].text = NoText
            THEN /\ req'[r].pc = "done"
                 /\ req'[r].resp = Resp(400, "Missing licenseKey or text")
                 /\ req'[r].relay = "none"
                 /\ licenses' = licenses
                 /\ usage' = usage
                 /\ relayCalls' = relayCalls
            ELSE req'[r].pc = "s_verify"
    ]_vars

MissingInputWitness ==
  /\ \E r \in Reqs : /\ req[r].kind = "summarise"
                     /\ req[r].licenseKey # NoKey
                     /\ req[r].text = NoText
                     /\ req[r].resp = Resp(400, "Missing licenseKey or text")
  /\ \E r \in Reqs : /\ req[r].kind = "summarise"
                     /\ req[r].licenseKey = NoKey
                     /\ req[r].resp = Resp(400, "Missing licenseKey or text")

\* C5: in every reachable store, for a key k that was issued and then
\* deactivated, Verify answers exactly as it does in the store that differs
\* only in k never having been issued ({valid: false}, status 200), and
\* summarise rejects k in both.
VerifyIndistinguishable ==
  \A k \in Keys :
    (\E l \in licenses : l.key = k /\ ~l.active)
      => LET neverIssued == {l \in licenses : l.key # k}
         IN \A reply \in {"ok", "error"} :
              /\ VerifyResponse(verifyLicense(licenses, k, reply))
                   = VerifyResponse(verifyLicense(neverIssued, k, reply))
              /\ VerifyResponse(verifyLicense(licenses, k, reply)) = Resp(200, "valid:false")
              /\ LicenseRejected(verifyLicense(licenses, k, reply))
              /\ LicenseRejected(verifyLicense(neverIssued, k, reply))

VerifyIndistinguishableWitness ==
  \E k \in Keys :
    /\ \E l \in licenses : l.key = k /\ ~l.active
    /\ \E r \in Reqs : /\ req[r].kind = "verify"
                       /\ req[r].licenseKey = k
                       /\ req[r].resp = Resp(200, "valid:false")

\* C6: the insert stores the license with active = true; when the email
\* send then fails, the handler still answers success, leaves the licenses
\* table as it is, the record is in the store, and as long as no operator
\* has revoked it a verify of that key answers valid.
DeliveryFailureSwallowed ==
  [][\A r \in Reqs :
       /\ (req[r].pc = "w_insert" /\ req'[r].pc = "w_email")
            => \E l \in licenses' \ licenses :
                 l.key = req[r].licenseKey /\ l.stripe_session_id = req[r].session /\ l.active
       /\ (req[r].pc = "w_email" /\ req'[r].delivery = "failed")
            => /\ req'[r].pc = "done"
               /\ req'[r].resp = Resp(200, "received")
               /\ licenses' = licenses
               /\ \E l \in licenses' :
                    /\ l.key = req[r].licenseKey
                    /\ l.stripe_session_id = req[r].session
                    /\ l.active => VerifyResponse(verifyLicense(licenses', l.key, "ok"))
                                     = Resp(200, "valid:true")
    ]_vars

DeliveryFailureWitness ==
  \E r \in Reqs :
    /\ req[r].kind = "webhook"
    /\ req[r].delivery = "failed"
    /\ req[r].resp = Resp(200, "received")
    /\ \E l \in licenses : l.active

\* C7: for a checkout.session.completed event the webhook handler answers
\* success if and only if a license with the event's transaction reference
\* is in the store when it responds.
AckMatchesDurability ==
  [][\A r \in Reqs :
       (req[r].pc \in {"w_insert", "w_email"} /\ Responds(r))
         => (req'[r].resp = Resp(200, "received")
               <=> \E l \in licenses' : l.stripe_session_id = req[r].session)
    ]_vars

\* C8: a summarise request appends a usage record only if verification
\* succeeded, the relay answered success and its output parsed as JSON, and
\* only a request that returns a Summary does so.
UsageOnlyOnSummary ==
  [][usage' # usage
       => \E r \in Reqs :
            /\ req[r].pc = "s_usage"
            /\ req[r].license # NoLicense
            /\ req[r].relay = "ok"
            /\ Parses(req[r].raw)
            /\ req'[r].resp.status = 200
            /\ usage' = Append(usage, req[r].licenseKey)
    ]_vars

\* C9: when the relay answers success but its content, after fence
\* stripping, is not JSON, summarise answers MalformedResponse: not the
\* generic internal error, not RelayError (502), not a result.
MalformedIsDistinct ==
  [][\A r \in Reqs :
       (req[r].pc = "s_usage" /\ ~Parses(req[r].raw) /\ Responds(r))
         => /\ req'[r].resp # InternalError
            /\ req'[r].resp.status \notin {200, 502}
    ]_vars

\* C10: when verification and the relay call succeeded and the relay output
\* parses, summarise returns the parsed Summary whether the usage insert
\* succeeds, returns an error, or throws.
UsageFailureKeepsSummary ==
  [][\A r \in Reqs :
       (req[r].pc = "s_usage" /\ Parses(req[r].raw) /\ req'[r] # req[r])
         => /\ req'[r].pc = "done"
            /\ req'[r].resp = Resp(200, req[r].raw[1])
    ]_vars

\* ------------------------------------------------------------------ C11
\* C11: a relay call that is unreachable (the call throws) or answers with
\* a non-success status ends the summarise request with the relay-error
\* response, status 502, in both cases, and writes no usage record.
RelayFailureIsRelayError ==
  [][\A r \in Reqs :
       (req[r].pc = "s_fetch" /\ req'[r].relay \in {"unreachable", "error"})
         => /\ req'[r].pc = "done"
            /\ req'[r].resp.status = 502
            /\ usage' = usage]_vars

\* ------------------------------------------------------------------ C12
\* C12: whenever the store lookup of verifyLicense yields no license (an
\* error, no row, several rows or a thrown failure), Verify answers
\* valid:false with status 200 and summarise answers InvalidLicense, as
\* they do for a key that does not exist, and the relay is not called.
VerifierFailsClosed ==
  [][\A r \in Reqs :
       /\ (req[r].pc = "v_verify" /\ req'[r] # req[r])
            => /\ req'[r].pc = "done"
               /\ \/ req'[r].resp = Resp(200, "valid:false")
                  \/ /\ req'[r].resp = Resp(200, "valid:true")
                     /\ \E l \in licenses : l.key = req[r].licenseKey /\ l.active
       /\ (req[r].pc = "s_verify" /\ req'[r] # req[r] /\ req'[r].pc # "s_fetch")
            => /\ req'[r].pc = "done"
               /\ req'[r].resp = InvalidLicense
               /\ relayCalls' = relayCalls]_vars

\* ------------------------------------------------------------------ C13
\* What the handlers do on their own once a store or mailer call settles;
\* the relay's answer is not among them, as the fetch carries no timeout
\* and no abort signal.
HandlerSteps ==
  \E r \in Reqs : \/ SummariseVerified(r)
                  \/ SummariseLogged(r)
                  \/ VerifyLookedUp(r)
                  \/ WebhookInserted(r)
                  \/ WebhookEmailed(r)

\* The program with every settled store and mailer call resumed, and a
\* relay that may stay silent.
SpecSilentRelay == Spec /\ WF_vars(HandlerSteps)

\* C13: every summarise request that has called the relay is eventually
\* answered, even if the relay never answers.
BoundedRelayWait ==
  \A r \in Reqs : (req[r].pc = "s_fetch") ~> (req[r].pc = "done")

\* ------------------------------------------------------------------ C14
\* C14: an event whose signature does not verify is rejected with 400 at
\* once; no key is generated, no store write and no delivery are made,
\* and licenses and usage are as before.
SignatureFailureStops ==
  [][\A r \in Reqs :
       (req'[r].kind = "webhook" /\ req'[r] # req[r] /\ req'[r].sig # "valid")
         => /\ req[r].pc = "idle"
            /\ req'[r].pc = "done"
            /\ req'[r].resp = Resp(400, "Webhook Error")
            /\ req'[r].licenseKey = NoKey
            /\ req'[r].delivery = "none"
            /\ licenses' = licenses
            /\ usage' = usage]_vars

\* An event with a bad signature was rejected after a license had been
\* issued, and the store holds that license only.
SignatureFailureWitness ==
  \E r \in Reqs :
    /\ req[r].kind = "webhook" /\ req[r].sig = "invalid"
    /\ req[r].pc = "done" /\ req[r].resp.status = 400
    /\ Cardinality(licenses) = 1

\* ------------------------------------------------------------------ C15
\* C15: a verified event whose type is not checkout.session.completed is
\* acknowledged with success at once and leaves licenses and usage as
\* they were; no key is generated and nothing is delivered.
EventTypeFilter ==
  [][\A r \in Reqs :
       (/\ req'[r].kind = "webhook" /\ req'[r] # req[r]
        /\ req'[r].sig = "valid"
        /\ req'[r].evtype # "checkout.session.completed")
         => /\ req[r].pc = "idle"
            /\ req'[r].pc = "done"
            /\ req'[r].resp = Resp(200, "received")
            /\ req'[r].licenseKey = NoKey
            /\ req'[r].delivery = "none"
            /\ licenses' = licenses
            /\ usage' = usage]_vars

\* A verified payment_intent.created event was acknowledged while the
\* store held no license.
EventTypeFilterWitness ==
  \E r \in Reqs :
    /\ req[r].kind = "webhook" /\ req[r].sig = "valid"
    /\ req[r].evtype = "payment_intent.created"
    /\ req[r].pc = "done" /\ req[r].resp = Resp(200, "received")
    /\ licenses = {}

\* ------------------------------------------------------------------ C16
\* C16: no two license records ever share a key; when the generated key
\* equals the key of an existing license the insert leaves the store as
\* it was and the handler does not acknowledge success: it answers 500
\* (or, where the insert is thrown outside a try block, not at all).
KeyUniqueness ==
  [][/\ \A l1, l2 \in licenses' : l1.key = l2.key => l1 = l2
     /\ \A r \in Reqs :
          (/\ req[r].pc = "w_insert" /\ req'[r] # req[r]
           /\ \E l \in licenses : l.key = req[r].licenseKey)
            => /\ licenses' = licenses
               /\ \/ /\ req'[r].pc = "done"
                     /\ req'[r].resp.status = 500
                  \/ /\ req'[r].pc = "hung"
                     /\ variant # "guarded"]_vars

\* A webhook request has issued the insert of a key that a stored license
\* of another transaction already carries.
KeyCollisionWitness ==
  \E r \in Reqs :
    /\ req[r].pc = "w_insert"
    /\ \E l \in licenses : /\ l.key = req[r].licenseKey
                           /\ l.stripe_session_id # req[r].session

\* ------------------------------------------------------------------ C17
\* How far the text lengths of the truncation runs go beyond MaxChars.
MaxOver == 50

\* Lengths from the empty text to just over the limit.
TruncLens == 0..(MaxChars + MaxOver)

\* One licensed summarise request of each text length, its license lookup
\* issued.
InitTrunc ==
  /\ variant \in Variants
  /\ \E e \in Emails :
       licenses = {[key |-> 1, email |-> e, stripe_session_id |-> 1, active |-> TRUE]}
  /\ usage = <<>>
  /\ relayCalls = {}
  /\ \E n \in TruncLens \ {NoText} :
       req = [r \in Reqs |->
                IF r = 1
                THEN [IdleReq EXCEPT !.kind = "summarise", !.pc = "s_verify",
                                     !.licenseKey = 1, !.text = n]
                ELSE IdleReq]

NextTrunc ==
  \E r \in Reqs : \/ SummariseVerified(r)
                  \/ SummariseRelayed(r)
                  \/ SummariseLogged(r)

SpecTrunc == InitTrunc /\ [][NextTrunc]_vars

\* C17: the text forwarded to the relay is the first min(length, 6000)
\* characters of the request text: a longer text is forwarded at length
\* 6000 without an error, a shorter one unchanged.
Truncation ==
  [][\A r \in Reqs :
       (req[r].pc = "s_verify" /\ req'[r].pc = "s_fetch")
         => \E c \in relayCalls' \ relayCalls :
              /\ relayCalls' = relayCalls \cup {c}
              /\ c.req = r
              /\ c.first = 0
              /\ c.chars = IF req[r].text > 6000 THEN 6000 ELSE req[r].text
              /\ req'[r].resp = NoResp]_vars

\* A request with a text of 6001 characters has called the relay with the
\* first 6000 of them and is waiting for its answer.
TruncationWitness ==
  \E r \in Reqs :
    /\ req[r].pc = "s_fetch" /\ req[r].text = 6001
    /\ \E c \in relayCalls : c.req = r /\ c.first = 0 /\ c.chars = 6000

\* ------------------------------------------------------------------ C18
\* A token or nothing.
Opt(t) == {<<>>, <<t>>}

\* The relay contents that carry the JSON text J: bare, in a code fence
\* tagged json, or in an untagged code fence, with or without whitespace
\* around the text and around the fence.
Wrappings(J) ==
  {a \o <<J>> \o b : a \in Opt("ws"), b \in Opt("ws")}
  \cup
  {a \o <<"FENCE">> \o tag \o b \o <<J>> \o c \o <<"FENCE">> \o d :
     a \in Opt("ws"), tag \in Opt("json"), b \in Opt("ws"),
     c \in Opt("ws"), d \in Opt("ws")}

FencedContents == UNION {Wrappings(J) : J \in JsonTexts}

\* One licensed summarise request waiting for the relay's answer.
InitFence ==
  /\ variant \in Variants
  /\ usage = <<>>
  /\ \E e \in Emails, n \in TextLens \ {NoText} :
       LET lic == [key |-> 1, email |-> e, stripe_session_id |-> 1, active |-> TRUE]
       IN /\ licenses = {lic}
          /\ relayCalls = {[req |-> 1, first |-> Trimmed(n).first,
                            chars |-> Trimmed(n).chars]}
          /\ req = [r \in Reqs |->
                      IF r = 1
                      THEN [IdleReq EXCEPT !.kind = "summarise", !.pc = "s_fetch",
                                           !.licenseKey = 1, !.text = n,
                                           !.license = lic, !.relay = "pending"]
                      ELSE IdleReq]

NextFence ==
  \E r \in Reqs : \/ SummariseRelayedWith(r, FencedContents)
                  \/ SummariseLogged(r)

SpecFence == InitFence /\ [][NextFence]_vars

\* C18: for a valid license and a JSON text J, summarise gives the same
\* result whether the relay content is J bare, J in a fence tagged json or
\* J in an untagged fence, with optional surrounding whitespace: what is
\* parsed is J itself, and the answer is the summary J unless the usage
\* write throws.
FenceStripping ==
  [][\A r \in Reqs : \A J \in JsonTexts :
       /\ (req[r].pc = "s_fetch" /\ req'[r].content \in Wrappings(J))
            => req'[r].pc = "s_usage" /\ req'[r].raw = <<J>>
       /\ (req[r].pc = "s_usage" /\ req[r].content \in Wrappings(J) /\ req'[r] # req[r])
            => /\ req'[r].pc = "done"
               /\ \/ req'[r].resp = Resp(200, J)
                  \/ req'[r].resp = InternalError /\ usage' = usage]_vars

\* The relay answered with J1 in a json-tagged fence, whitespace all
\* around, and the handler holds J1 alone to parse.
FenceStrippingWitness ==
  \E r \in Reqs :
    /\ req[r].pc = "s_usage"
    /\ req[r].content = <<"ws", "FENCE", "json", "ws", "J1", "ws", "FENCE", "ws">>
    /\ req[r].raw = <<"J1">>

\* ------------------------------------------------------------------ C19
\* The one checkout.session.completed event the payment provider has to
\* deliver: its transaction reference and customer email.
RedeliveredEvent == [session |-> 1, email |-> 1]

\* A delivery was acknowledged with success.
Acked == \E q \in Reqs : req[q].kind = "webhook" /\ req[q].resp = Resp(200, "received")

\* The provider posts the event, and posts it again for as long as it
\* holds no success acknowledgement: after a failure response, and after
\* waiting in vain for a response that is late or will never come.
Deliver(r) ==
  /\ CanStart(r)
  /\ ~Acked
  /\ \E k \in Keys :
       Set(r, [IdleReq EXCEPT !.kind = "webhook", !.sig = "valid",
                              !.evtype = "checkout.session.completed",
                              !.pc = "w_insert",
                              !.session = RedeliveredEvent.session,
                              !.licenseKey = k,
                              !.email = RedeliveredEvent.email])
  /\ UNCHANGED <<variant, licenses, usage, relayCalls>>

NextRedelivery ==
  \E r \in Reqs : \/ Deliver(r)
                  \/ WebhookInserted(r)
                  \/ WebhookEmailed(r)

SpecRedelivery == Init /\ [][NextRedelivery]_vars

\* C19: under redelivery until a success acknowledgement, the event ends
\* with exactly one active license for its transaction reference: once a
\* delivery is acknowledged and no delivery is still being handled, the
\* store holds one such license, no more and no less.
NoLostLicense ==
  (Acked /\ \A q \in Reqs : req[q].pc \in {"idle", "done", "hung"})
    => Cardinality({l \in LicensesFor(RedeliveredEvent.session) : l.active}) = 1

\* ------------------------------------------------------------------ C20
\* C20: a revoked license stays revoked, and every lookup made for its key
\* from then on sees the flag as stored: Verify answers valid:false, and
\* summarise is rejected with InvalidLicense without a relay call. (A
\* lookup that throws gives no answer, or the catch's 500 in the guarded
\* revision; it accepts the key in no revision.)
RevocationImmediate ==
  [][/\ \A l \in licenses : ~l.active => l \in licenses'
     /\ \A r \in Reqs :
          (/\ req[r].pc \in {"v_verify", "s_verify"} /\ req'[r] # req[r]
           /\ \E l \in licenses : l.key = req[r].licenseKey /\ ~l.active)
            => /\ relayCalls' = relayCalls
               /\ usage' = usage
               /\ \/ /\ req'[r].pc = "done"
                     /\ req'[r].resp = IF req[r].kind = "verify"
                                       THEN Resp(200, "valid:false")
                                       ELSE Resp(403, "INVALID_LICENSE")
                  \/ /\ req'[r].pc = "hung"
                     /\ variant # "guarded"
                  \/ /\ req'[r].pc = "done"
                     /\ variant = "guarded"
                     /\ req'[r].resp = IF req[r].kind = "verify"
                                       THEN Resp(500, "valid:false")
                                       ELSE Resp(500, "Internal server error")]_vars

\* The issuing webhook was acknowledged, an operator revoked the license,
\* and a Verify of its key has been answered valid:false.
RevocationWitness ==
  \E r1, r2 \in Reqs :
    /\ req[r1].kind = "webhook" /\ req[r1].resp = Resp(200, "received")
    /\ req[r2].kind = "verify" /\ req[r2].resp = Resp(200, "valid:false")
    /\ \E l \in licenses : l.key = req[r2].licenseKey /\ ~l.active

\* ------------------------------------------------------------------ C21
\* C21: a step of a Verify request changes neither licenses nor usage; a
\* step of a summarise request never changes licenses; no step of any
\* handler updates or deletes a usage or license record: usage only grows
\* by one appended record, licenses only by one inserted record with
\* active = true; and a deactivation by the operator leaves usage as it is.
FrameOfReadPaths ==
  [][/\ \A r \in Reqs :
          (req'[r] # req[r])
            => /\ req'[r].kind = "verify"
                    => licenses' = licenses /\ usage' = usage
               /\ req'[r].kind = "summarise"
                    => licenses' = licenses
               /\ licenses \subseteq licenses'
               /\ Cardinality(licenses' \ licenses) <= 1
               /\ \A l \in licenses' \ licenses : l.active = TRUE
     /\ Len(usage') \in {Len(usage), Len(usage) + 1}
     /\ \A i \in 1..Len(usage) : usage'[i] = usage[i]
     /\ (licenses' # licenses /\ req' = req) => usage' = usage]_vars

\* The license of key k was deactivated and a usage record of k, written
\* by a summarise request answered with its summary, is still there.
FrameWitness ==
  \E k \in Keys :
    /\ \E l \in licenses : l.key = k /\ ~l.active
    /\ \E i \in 1..Len(usage) : usage[i] = k
    /\ \E r \in Reqs : /\ req[r].kind = "summarise" /\ req[r].licenseKey = k
                       /\ req[r].resp.status = 200

\* ------------------------------------------------------------------ C22
\* C22: for a verified checkout.session.completed event without a
\* purchaser email, an accepted insert stores the license with active =
\* true and no email, and the handler then acknowledges success, also
\* when the send to the absent address fails.
IssuanceWithoutEmail ==
  [][\A r \in Reqs :
       (req[r].kind = "webhook" /\ req[r].email = NoEmail)
         => /\ (req[r].pc = "w_insert" /\ req'[r] # req[r] /\ licenses' # licenses)
                 => /\ licenses' = licenses \cup
                          {[key |-> req[r].licenseKey, email |-> NoEmail,
                            stripe_session_id |-> req[r].session, active |-> TRUE]}
                    /\ \/ req'[r].pc = "done" /\ req'[r].resp = Resp(200, "received")
                       \/ variant = "mailer" /\ req'[r].pc = "w_email"
            /\ (req[r].pc = "w_email" /\ req'[r] # req[r])
                 => /\ req'[r].pc = "done"
                    /\ req'[r].resp = Resp(200, "received")
                    /\ req'[r].delivery \in {"sent", "failed"}
                    /\ licenses' = licenses]_vars

\* The only webhook request so far carried no email: its license is in
\* the store, active and without an email, the send failed and the
\* request was acknowledged with success.
IssuanceWithoutEmailWitness ==
  \E r \in Reqs :
    /\ req[r].kind = "webhook" /\ req[r].delivery = "failed"
    /\ req[r].resp = Resp(200, "received")
    /\ \A q \in Reqs \ {r} : req[q].kind # "webhook"
    /\ Cardinality(licenses) = 1
    /\ \A l \in licenses : l.email = NoEmail /\ l.active

====
